---- MODULE Spec2Model ----
(***************************************************************************)
(* Scenario state-and-timing engine of the flight scenario simulator.      *)
(*                                                                         *)
(* The repository holds two generations of the engine:                     *)
(*   - the store-backed engine (realTimeAdaptation / decisionTree /        *)
(*     parameterSimulation / decisionImpact on the relational store),      *)
(*     modelled by Spec and SpecImpact;                                    *)
(*   - the HTTP-backed engine (the same library functions issuing fetch    *)
(*     calls to the /api/scenarios/... routes), modelled by SpecHttp.      *)
(*                                                                         *)
(* Tables are sequences of rows, a row id is its index.  A nullable column *)
(* holds << >> (null) or <<v>>.  Fuel is counted in sixtieths of a pound,  *)
(* so that fuel_burn_rate/60 pounds per second is the integer              *)
(* fuel_burn_rate in these units and the arithmetic is exact.              *)
(***************************************************************************)
EXTENDS Integers, Sequences, FiniteSets, TLC

(***************************************************************************)
(* Bounds of the model.                                                    *)
(***************************************************************************)
MaxElapsed == 2
MaxStep == 2
MaxNodes == 2
MaxDecisions == 2
MaxQueue == 2
MaxHistory == 2
MaxResponses == 2
MaxGenComms == 1
MaxSnapshots == 2
MaxBranchNodes == 3
MaxBranchDecisions == 3
MaxBranchResponses == 4
InitialFuel == 1
NumSavedDecisions == 1
NumSavedComms == 1
\* sizes of the scenario a client posts to the scenarios route
MaxWaypoints == 2
MaxBodyDecisions == 1
MaxBodyOptions == 2
MaxBodyComms == 1
\* decision responses an evaluated scenario has, evaluations stored for it
MaxEvaluatedResponses == 4
MaxEvaluations == 2
\* calls of the engine that may be in flight at once
MaxCallers == 2

\* seconds a caller passes to processScenarioTick
Steps == 0..MaxStep
\* fuel_burn_rate values (pounds per minute) the store or the generator supply
BurnRates == {-60, 0, 60}
\* trigger_time of a queue row saved outside generateNextNode (column default)
SavedTriggerTimes == {<< >>, <<1>>}
\* trigger_time the generator gives a next_decision (absent, zero, later)
GenTriggerTimes == {<< >>, <<0>>, <<2>>}
\* parameter_changes the generator returns: none, or a new fuel_burn_rate
GenParameterChanges == {<< >>, <<60>>}
\* the options of a decision: 1 is option A (recommended), 2 is option B
OptionKeys == {1, 2}

VARIABLES
  active_scenarios,      \* ScenarioTiming rows of the scenario (0 or 1)
  aircraft_positions,    \* aircraft parameter rows of the scenario (0 or 1)
  decision_nodes,        \* DecisionNode rows
  decisions,             \* Decision rows
  communications_queue,  \* CommunicationQueueItem rows
  communications,        \* Communication history: queue id each entry was copied from
  decision_responses,    \* DecisionResponse log
  decision_impacts,      \* DecisionImpact log
  scenario_states,       \* ScenarioState snapshots, oldest first
  scenario_is_active,    \* Scenario.is_active, the one column the timing route writes
  page,                  \* SimulatorPage state: isPaused and the displayed fuel
  httpTicks,             \* ticks the page's interval completed since activation
  patched,               \* body of the last timing and parameters PATCH of a tick
  prisma,                \* tables behind the scenarios routes (Scenario and its children)
  scenario_evaluations,  \* ScenarioEvaluation rows
  request,               \* what the caller of a route or of evaluateScenario supplies
  reply,                 \* what that call answered
  inflight,              \* the calls in flight: each one's position and what it has read
  lastCall               \* the operation that ran last and how it ended

storeVars == <<active_scenarios, aircraft_positions, decision_nodes, decisions,
               communications_queue, communications, decision_responses>>

impactVars == <<decision_impacts, scenario_states>>

httpVars == <<scenario_is_active, page, httpTicks, patched>>

serviceVars == <<prisma, scenario_evaluations, request, reply, inflight>>

vars == <<active_scenarios, aircraft_positions, decision_nodes, decisions,
          communications_queue, communications, decision_responses,
          decision_impacts, scenario_states,
          scenario_is_active, page, httpTicks, patched, prisma, scenario_evaluations,
          request, reply, inflight, lastCall>>

(***************************************************************************)
(* Helpers.                                                                *)
(***************************************************************************)
Max(a, b) == IF a >= b THEN a ELSE b
Min(a, b) == IF a <= b THEN a ELSE b

\* the orders in which a query without ORDER BY may return the rows of S
Orders(S) ==
  {f \in [1..Cardinality(S) -> S] :
      \A i, j \in 1..Cardinality(S) : i # j => f[i] # f[j]}

\* .single(): the row when exactly one matches, null (PGRST116) otherwise
Single(S) == IF Cardinality(S) = 1 THEN <<CHOOSE x \in S : TRUE>> ELSE << >>

OptionId(d, k) == <<d, k>>

\* the store as one record, for the operators that thread it through a handler
Store ==
  [active_scenarios |-> active_scenarios,
   aircraft_positions |-> aircraft_positions,
   decision_nodes |-> decision_nodes,
   decisions |-> decisions,
   communications_queue |-> communications_queue,
   communications |-> communications,
   decision_responses |-> decision_responses]

Commit(D) ==
  /\ active_scenarios' = D.active_scenarios
  /\ aircraft_positions' = D.aircraft_positions
  /\ decision_nodes' = D.decision_nodes
  /\ decisions' = D.decisions
  /\ communications_queue' = D.communications_queue
  /\ communications' = D.communications
  /\ decision_responses' = D.decision_responses

(***************************************************************************)
(* realTimeAdaptation: timing.                                             *)
(***************************************************************************)
getScenarioTiming(D) == Single({D.active_scenarios[i] : i \in DOMAIN D.active_scenarios})

updateScenarioTiming(D, elapsedSeconds, isPaused) ==
  [D EXCEPT !.active_scenarios =
     [i \in DOMAIN @ |-> [is_paused |-> isPaused, elapsed_seconds |-> elapsedSeconds]]]

(***************************************************************************)
(* parameterSimulation: continuous changes.                                *)
(***************************************************************************)
\* mutant: the burn is subtracted without the floor at zero
NewFuel_noFloor(fuel, fuel_burn_rate, elapsedSeconds) ==
  fuel - fuel_burn_rate * elapsedSeconds

NewFuel(fuel, fuel_burn_rate, elapsedSeconds) ==
  Max(0, fuel - fuel_burn_rate * elapsedSeconds)

\* [db, ok]: throws when the scenario has no parameter row
simulateContinuousChanges(D, elapsedSeconds) ==
  IF Len(D.aircraft_positions) # 1
  THEN [db |-> D, ok |-> FALSE]
  ELSE [db |-> [D EXCEPT !.aircraft_positions[1].fuel =
                   NewFuel(@, D.aircraft_positions[1].fuel_burn_rate, elapsedSeconds)],
        ok |-> TRUE]

(***************************************************************************)
(* decisionTree: node activation.                                          *)
(***************************************************************************)
ApplyParameterChanges(D, changes) ==
  IF changes = << >> THEN D
  ELSE [D EXCEPT !.aircraft_positions =
          [i \in DOMAIN @ |-> [@[i] EXCEPT !.fuel_burn_rate = changes[1]]]]

RECURSIVE SendCommunications(_, _)
SendCommunications(D, ids) ==
  IF ids = << >> THEN D
  ELSE LET c == Head(ids)
           D1 == [D EXCEPT !.communications_queue[c].is_sent = TRUE,
                           !.communications = Append(@, c)]
       IN SendCommunications(D1, Tail(ids))

activateDecisionNode(D, n) ==
  LET node == D.decision_nodes[n]
      D1 == IF node.decision_id # << >>
            THEN [D EXCEPT !.decisions[node.decision_id[1]].is_active = TRUE]
            ELSE D
      D2 == [D1 EXCEPT !.decision_nodes[n].is_active = TRUE]
      D3 == SendCommunications(D2, node.communications_to_trigger)
  IN ApplyParameterChanges(D3, node.parameter_changes)

RECURSIVE ActivateAll(_, _)
ActivateAll(D, order) ==
  IF order = << >> THEN D
  ELSE ActivateAll(activateDecisionNode(D, Head(order)), Tail(order))

(***************************************************************************)
(* realTimeAdaptation: triggers and the tick.                              *)
(***************************************************************************)
DueNodes(D, elapsedSeconds) ==
  {n \in DOMAIN D.decision_nodes :
      /\ ~D.decision_nodes[n].is_active
      /\ D.decision_nodes[n].trigger_time <= elapsedSeconds}

checkTimeTriggers(D, order) == ActivateAll(D, order)

DueComms(D, elapsedSeconds) ==
  {c \in DOMAIN D.communications_queue :
      /\ ~D.communications_queue[c].is_sent
      /\ D.communications_queue[c].trigger_time # << >>
      /\ D.communications_queue[c].trigger_time[1] <= elapsedSeconds}

checkCommunicationsTriggers(D, order) == SendCommunications(D, order)

\* the stores the two trigger checks of a tick can leave, over the row orders
RunTriggers(D, elapsedSeconds) ==
  UNION {LET D1 == checkTimeTriggers(D, nodeOrder)
         IN {checkCommunicationsTriggers(D1, commOrder) :
               commOrder \in Orders(DueComms(D1, elapsedSeconds))} :
           nodeOrder \in Orders(DueNodes(D, elapsedSeconds))}

\* mutant: the tick does not look at is_paused
processScenarioTick_ignoresPause(D, secondsElapsed) ==
  LET timing == getScenarioTiming(D) IN
  IF timing = << >>
  THEN {[db |-> D, outcome |-> "noop"]}
  ELSE LET newElapsedSeconds == timing[1].elapsed_seconds + secondsElapsed
           D1 == updateScenarioTiming(D, newElapsedSeconds, FALSE)
           sim == simulateContinuousChanges(D1, secondsElapsed)
       IN IF ~sim.ok
          THEN {[db |-> sim.db, outcome |-> "error"]}
          ELSE {[db |-> D2, outcome |-> "ok"] :
                  D2 \in RunTriggers(sim.db, newElapsedSeconds)}

\* mutant: the tick stores the seconds it was given instead of adding them
processScenarioTick_overwritesElapsed(D, secondsElapsed) ==
  LET timing == getScenarioTiming(D) IN
  IF timing = << >> \/ timing[1].is_paused
  THEN {[db |-> D, outcome |-> "noop"]}
  ELSE LET newElapsedSeconds == secondsElapsed
           D1 == updateScenarioTiming(D, newElapsedSeconds, FALSE)
           sim == simulateContinuousChanges(D1, secondsElapsed)
       IN IF ~sim.ok
          THEN {[db |-> sim.db, outcome |-> "error"]}
          ELSE {[db |-> D2, outcome |-> "ok"] :
                  D2 \in RunTriggers(sim.db, newElapsedSeconds)}

\* the outcomes of processScenarioTick(scenarioId, secondsElapsed)
processScenarioTick(D, secondsElapsed) ==
  LET timing == getScenarioTiming(D) IN
  IF timing = << >> \/ timing[1].is_paused
  THEN {[db |-> D, outcome |-> "noop"]}
  ELSE LET newElapsedSeconds == timing[1].elapsed_seconds + secondsElapsed
           D1 == updateScenarioTiming(D, newElapsedSeconds, FALSE)
           sim == simulateContinuousChanges(D1, secondsElapsed)
       IN IF ~sim.ok
          THEN {[db |-> sim.db, outcome |-> "error"]}
          ELSE {[db |-> D2, outcome |-> "ok"] :
                  D2 \in RunTriggers(sim.db, newElapsedSeconds)}

\* The tick when a store call may fail.  fault names the call that fails:
\* "timing" (the updateScenarioTiming write), "simulation" (a call of
\* simulateContinuousChanges, before it has written), "timeTriggers" (the
\* query of checkTimeTriggers), or "none".  Any failure leaves the try block:
\* the steps after it do not run and the tick rethrows.
Faults == {"none", "timing", "simulation", "timeTriggers"}

processScenarioTickWithFaults(D, secondsElapsed, fault) ==
  LET timing == getScenarioTiming(D) IN
  IF timing = << >> \/ timing[1].is_paused
  THEN {[db |-> D, outcome |-> "noop", thrown |-> FALSE]}
  ELSE IF fault = "timing"
  THEN {[db |-> D, outcome |-> "timingFailed", thrown |-> TRUE]}
  ELSE LET newElapsedSeconds == timing[1].elapsed_seconds + secondsElapsed
           D1 == updateScenarioTiming(D, newElapsedSeconds, FALSE)
           sim == IF fault = "simulation"
                  THEN [db |-> D1, ok |-> FALSE]
                  ELSE simulateContinuousChanges(D1, secondsElapsed)
       IN IF ~sim.ok
          THEN {[db |-> sim.db, outcome |-> "simulationFailed", thrown |-> TRUE]}
          ELSE IF fault = "timeTriggers"
          THEN {[db |-> sim.db, outcome |-> "timeTriggersFailed", thrown |-> TRUE]}
          ELSE {[db |-> D2, outcome |-> "ok", thrown |-> FALSE] :
                  D2 \in RunTriggers(sim.db, newElapsedSeconds)}

\* pauseScenario / resumeScenario: [db, outcome]
SetPaused(D, isPaused) ==
  LET timing == getScenarioTiming(D) IN
  IF timing = << >>
  THEN [db |-> D, outcome |-> "error"]
  ELSE [db |-> updateScenarioTiming(D, timing[1].elapsed_seconds, isPaused),
        outcome |-> "ok"]

pauseScenario(D) == SetPaused(D, TRUE)
resumeScenario(D) == SetPaused(D, FALSE)

(***************************************************************************)
(* decisionTree: processDecision and generateNextNode.                     *)
(*                                                                         *)
(* A generated response is a record                                        *)
(*   [parsed, ncomms, next_decision, parameter_changes]                    *)
(* next_decision is << >> or <<trigger_time>>, with trigger_time itself    *)
(* << >> (absent) or <<t>>.                                                *)
(***************************************************************************)
Generations ==
  [parsed : BOOLEAN,
   ncomms : 0..MaxGenComms,
   next_decision : {<< >>} \cup {<<t>> : t \in GenTriggerTimes},
   parameter_changes : GenParameterChanges]

\* the answers without communications and without parameter changes
BranchGenerations ==
  {g \in Generations : g.ncomms = 0 /\ g.parameter_changes = << >>}

\* trigger_time || 0
TriggerTimeOrZero(next_decision) ==
  IF next_decision = << >> \/ next_decision[1] = << >> THEN 0 ELSE next_decision[1][1]

generateNextNode(D, decisionId, optionId, parentNodeId, gen) ==
  IF Len(D.aircraft_positions) # 1 \/ ~gen.parsed
  THEN [db |-> D, outcome |-> "error"]
  ELSE
    LET communicationIds ==
          [i \in 1..gen.ncomms |-> Len(D.communications_queue) + i]
        D1 == [D EXCEPT !.communications_queue =
                 @ \o [i \in 1..gen.ncomms |-> [is_sent |-> FALSE, trigger_time |-> << >>]]]
        nextDecisionId ==
          IF gen.next_decision = << >> THEN << >> ELSE <<Len(D.decisions) + 1>>
        D2 == IF nextDecisionId = << >> THEN D1
              ELSE [D1 EXCEPT !.decisions = Append(@, [is_active |-> FALSE])]
        D3 == [D2 EXCEPT !.decision_nodes =
                 Append(@, [decision_id |-> nextDecisionId,
                            parent_node_id |-> parentNodeId,
                            option_id |-> optionId,
                            is_active |-> TRUE,
                            trigger_time |-> TriggerTimeOrZero(gen.next_decision),
                            communications_to_trigger |-> communicationIds,
                            parameter_changes |-> gen.parameter_changes])]
        D4 == ApplyParameterChanges(D3, gen.parameter_changes)
        D5 == IF nextDecisionId # << >> /\ TriggerTimeOrZero(gen.next_decision) = 0
              THEN [D4 EXCEPT !.decisions[nextDecisionId[1]].is_active = TRUE]
              ELSE D4
    IN [db |-> SendCommunications(D5, communicationIds), outcome |-> "ok"]

\* the child lookup: parent_node_id = currentNode.id and option_id = optionId;
\* without a current node the filter value is undefined and matches no row
ChildNodes(D, current, optionId) ==
  IF current = << >> THEN {}
  ELSE {n \in DOMAIN D.decision_nodes :
          /\ D.decision_nodes[n].parent_node_id = current
          /\ D.decision_nodes[n].option_id = optionId}

ActiveNodes(D) == {n \in DOMAIN D.decision_nodes : D.decision_nodes[n].is_active}

\* mutant: the stored child is not looked up, a node is always synthesized
processDecision_alwaysGenerates(D, decisionId, optionId, gen) ==
  LET D1 == [D EXCEPT !.decision_responses =
               Append(@, [decision_id |-> decisionId, option_id |-> optionId])]
      D2 == [D1 EXCEPT !.decisions[decisionId].is_active = FALSE]
      currentNode == Single(ActiveNodes(D2))
      D3 == IF currentNode # << >>
            THEN [D2 EXCEPT !.decision_nodes[currentNode[1]].is_active = FALSE]
            ELSE D2
      g == generateNextNode(D3, decisionId, optionId, currentNode, gen)
  IN [db |-> g.db, outcome |-> g.outcome, generated |-> TRUE]

processDecision(D, decisionId, optionId, gen) ==
  LET D1 == [D EXCEPT !.decision_responses =
               Append(@, [decision_id |-> decisionId, option_id |-> optionId])]
      D2 == [D1 EXCEPT !.decisions[decisionId].is_active = FALSE]
      currentNode == Single(ActiveNodes(D2))
      D3 == IF currentNode # << >>
            THEN [D2 EXCEPT !.decision_nodes[currentNode[1]].is_active = FALSE]
            ELSE D2
      nextNode == Single(ChildNodes(D3, currentNode, optionId))
  IN IF nextNode # << >>
     THEN [db |-> activateDecisionNode(D3, nextNode[1]), outcome |-> "ok", generated |-> FALSE]
     ELSE LET g == generateNextNode(D3, decisionId, optionId, currentNode, gen)
          IN [db |-> g.db, outcome |-> g.outcome, generated |-> TRUE]

(***************************************************************************)
(* scenarioLoader: activation and deactivation.                            *)
(***************************************************************************)
\* upsert of the parameter row (fuel reset, fuel_burn_rate left to the store)
\* and of the timing row (is_paused reset, elapsed_seconds left to the store)
activateScenario(D, defaultBurnRate) ==
  [D EXCEPT
     !.aircraft_positions =
        IF @ = << >>
        THEN <<[fuel |-> InitialFuel * 60, fuel_burn_rate |-> defaultBurnRate]>>
        ELSE [i \in DOMAIN @ |-> [@[i] EXCEPT !.fuel = InitialFuel * 60]],
     !.active_scenarios =
        IF @ = << >>
        THEN <<[is_paused |-> FALSE, elapsed_seconds |-> 0]>>
        ELSE [i \in DOMAIN @ |-> [@[i] EXCEPT !.is_paused = FALSE]]]

\* mutant: the timing row is kept
deactivateScenario_keepsTiming(D) ==
  [D EXCEPT
     !.decisions = [i \in DOMAIN @ |-> [@[i] EXCEPT !.is_active = FALSE]]]

deactivateScenario(D) ==
  [D EXCEPT
     !.decisions = [i \in DOMAIN @ |-> [@[i] EXCEPT !.is_active = FALSE]],
     !.active_scenarios = << >>]

(***************************************************************************)
(* decisionImpact: the impact of a decision and the ScenarioState log.     *)
(***************************************************************************)
\* impacts the generator returns; the prompt asks for -10..10, nothing checks it
ScoreImpacts == {-150, 5}
\* time_impact in minutes
TimeImpacts == {3}
\* fuel_impact: one pound, in sixtieths
FuelImpacts == {60}

Impacts ==
  [safety_impact : ScoreImpacts,
   efficiency_impact : ScoreImpacts,
   passenger_comfort_impact : ScoreImpacts,
   time_impact : TimeImpacts,
   fuel_impact : FuelImpacts]

\* mutant: the sum is floored at zero but not capped at one hundred
ClampScore_noCeiling(score, delta) == Max(0, score + delta)

ClampScore(score, delta) == Max(0, Min(100, score + delta))

\* the latest snapshot, or the initial state when the log is empty
CurrentState(states, aircraft) ==
  IF states = << >>
  THEN [current_safety_score |-> 100,
        current_efficiency_score |-> 100,
        current_passenger_comfort_score |-> 100,
        time_deviation |-> 0,
        fuel_remaining |-> IF aircraft.fuel # 0 THEN aircraft.fuel ELSE InitialFuel * 60]
  ELSE states[Len(states)]

\* [ok, impact]: throws without the decision, its option, the parameter row,
\* or a response that parses
calculateDecisionImpact(D, decisionId, optionId, parsed, impactData) ==
  [ok |-> /\ decisionId \in DOMAIN D.decisions
          /\ optionId[1] = decisionId
          /\ Len(D.aircraft_positions) = 1
          /\ parsed,
   impact |-> [decision_id |-> decisionId, option_id |-> optionId,
               safety_impact |-> impactData.safety_impact,
               efficiency_impact |-> impactData.efficiency_impact,
               passenger_comfort_impact |-> impactData.passenger_comfort_impact,
               time_impact |-> impactData.time_impact,
               fuel_impact |-> impactData.fuel_impact]]

saveDecisionImpact(impacts, impact) == Append(impacts, impact)

\* [states, ok]: throws when the scenario has no parameter row
updateScenarioState(D, states, impact) ==
  IF Len(D.aircraft_positions) # 1
  THEN [states |-> states, ok |-> FALSE]
  ELSE LET currentState == CurrentState(states, D.aircraft_positions[1])
           newState ==
             [current_safety_score |->
                ClampScore(currentState.current_safety_score, impact.safety_impact),
              current_efficiency_score |->
                ClampScore(currentState.current_efficiency_score, impact.efficiency_impact),
              current_passenger_comfort_score |->
                ClampScore(currentState.current_passenger_comfort_score,
                           impact.passenger_comfort_impact),
              time_deviation |-> currentState.time_deviation + impact.time_impact,
              fuel_remaining |-> currentState.fuel_remaining - impact.fuel_impact]
       IN [states |-> Append(states, newState), ok |-> TRUE]

\* mutant: the impact is stored before the answer is known to parse
processDecisionImpact_savesUnparsed(D, impacts, states, decisionId, optionId, parsed, impactData) ==
  LET c == calculateDecisionImpact(D, decisionId, optionId, parsed, impactData) IN
  IF ~c.ok
  THEN [impacts |-> saveDecisionImpact(impacts, c.impact), states |-> states,
        outcome |-> "error"]
  ELSE LET saved == saveDecisionImpact(impacts, c.impact)
           u == updateScenarioState(D, states, c.impact)
       IN [impacts |-> saved, states |-> u.states,
           outcome |-> IF u.ok THEN "ok" ELSE "error"]

\* calculate, save the impact, then append the snapshot
processDecisionImpact(D, impacts, states, decisionId, optionId, parsed, impactData) ==
  LET c == calculateDecisionImpact(D, decisionId, optionId, parsed, impactData) IN
  IF ~c.ok
  THEN [impacts |-> impacts, states |-> states, outcome |-> "error"]
  ELSE LET saved == saveDecisionImpact(impacts, c.impact)
           u == updateScenarioState(D, states, c.impact)
       IN [impacts |-> saved, states |-> u.states,
           outcome |-> IF u.ok THEN "ok" ELSE "error"]

(***************************************************************************)
(* The HTTP-backed engine: realTimeAdaptation and parameterSimulation      *)
(* issuing requests to the timing and parameters routes, driven by the     *)
(* simulator page.                                                         *)
(***************************************************************************)
SimulatedSeconds == 60
ScenarioInitialFuel == 15000
ScenarioFuelBurnRate == 50
TickIntervalSeconds == 1

\* GET /api/scenarios/timing: << >> for the 400 of an inactive scenario
TimingGET(isActive) ==
  IF ~isActive THEN << >>
  ELSE <<[is_paused |-> FALSE, elapsed_seconds |-> 0]>>

\* PATCH /api/scenarios/timing: stores is_active, echoes the body
TimingPATCH(elapsedSeconds, isPaused) ==
  [is_active |-> ~isPaused,
   timing |-> [is_paused |-> isPaused, elapsed_seconds |-> elapsedSeconds]]

\* GET /api/scenarios/parameters: the scenario's initial values
ParametersGET ==
  [fuel |-> ScenarioInitialFuel * 60, fuel_burn_rate |-> ScenarioFuelBurnRate]

\* PATCH /api/scenarios/parameters: stores nothing, echoes the changes
ParametersPATCH(changes) == changes

simulateContinuousChangesHttp(elapsedSeconds) ==
  LET currentParams == ParametersGET IN
  ParametersPATCH([fuel |-> NewFuel(currentParams.fuel, currentParams.fuel_burn_rate,
                                    elapsedSeconds)])

\* simulateContinuousChanges of the HTTP variant as a function of what
\* getCurrentParameters resolved to: << >> (null: an answer without
\* parameters) or <<parameters>>.  [ok, patches]: the PATCH bodies it sends.
\* Without parameters it takes the defaults, PATCHes them and carries on.
simulateContinuousChangesHttpGiven(response, elapsedSeconds) ==
  LET defaults == [fuel |-> ScenarioInitialFuel * 60,
                   fuel_burn_rate |-> ScenarioFuelBurnRate]
      currentParams == IF response = << >> THEN defaults ELSE response[1]
      seeded == IF response = << >> THEN <<ParametersPATCH(defaults)>> ELSE << >>
      changes == [fuel |-> NewFuel(currentParams.fuel, currentParams.fuel_burn_rate,
                                   elapsedSeconds)]
  IN [ok |-> TRUE, patches |-> Append(seeded, ParametersPATCH(changes))]

\* [is_active, outcome, patched].  The trigger checks that follow the
\* simulation write neither Scenario.is_active nor the page state, and the
\* tick swallows their errors.
processScenarioTickHttp(isActive, secondsElapsed) ==
  LET timing == TimingGET(isActive) IN
  IF timing = << >>
  THEN [is_active |-> isActive, outcome |-> "error", patched |-> << >>]
  ELSE IF timing[1].is_paused
  THEN [is_active |-> isActive, outcome |-> "noop", patched |-> << >>]
  ELSE LET newElapsedSeconds == timing[1].elapsed_seconds + secondsElapsed
           updated == TimingPATCH(newElapsedSeconds, FALSE)
           params == simulateContinuousChangesHttp(secondsElapsed)
       IN [is_active |-> updated.is_active, outcome |-> "ok",
           patched |-> <<[elapsed_seconds |-> updated.timing.elapsed_seconds,
                          fuel |-> params.fuel]>>]

\* The HTTP tick when a request may fail (a non-OK response).  Every error
\* of the tick ends in its outer catch, which logs and returns normally; an
\* error of the simulation ends in the inner catch and the tick goes on.
processScenarioTickHttpWithFaults(isActive, secondsElapsed, fault) ==
  LET timing == TimingGET(isActive) IN
  IF timing = << >>
  THEN [is_active |-> isActive, outcome |-> "error", patched |-> << >>, thrown |-> FALSE]
  ELSE IF timing[1].is_paused
  THEN [is_active |-> isActive, outcome |-> "noop", patched |-> << >>, thrown |-> FALSE]
  ELSE IF fault = "timing"
  THEN [is_active |-> isActive, outcome |-> "timingFailed", patched |-> << >>,
        thrown |-> FALSE]
  ELSE LET newElapsedSeconds == timing[1].elapsed_seconds + secondsElapsed
           updated == TimingPATCH(newElapsedSeconds, FALSE)
       IN IF fault = "simulation"
          THEN [is_active |-> updated.is_active, outcome |-> "simulationFailed",
                patched |-> <<[elapsed_seconds |-> updated.timing.elapsed_seconds]>>,
                thrown |-> FALSE]
          ELSE [is_active |-> updated.is_active,
                outcome |-> IF fault = "timeTriggers" THEN "timeTriggersFailed" ELSE "ok",
                patched |-> <<[elapsed_seconds |-> updated.timing.elapsed_seconds,
                               fuel |-> simulateContinuousChangesHttp(secondsElapsed).fuel]>>,
                thrown |-> FALSE]

\* pauseScenario / resumeScenario: [is_active, outcome]
SetPausedHttp(isActive, isPaused) ==
  LET timing == TimingGET(isActive) IN
  IF timing = << >>
  THEN [is_active |-> isActive, outcome |-> "error"]
  ELSE [is_active |-> TimingPATCH(timing[1].elapsed_seconds, isPaused).is_active,
        outcome |-> "ok"]

pauseScenarioHttp(isActive) == SetPausedHttp(isActive, TRUE)
resumeScenarioHttp(isActive) == SetPausedHttp(isActive, FALSE)

(***************************************************************************)
(* The store-backed engine as a state machine: one action per call, each   *)
(* call completing before the next starts.                                 *)
(***************************************************************************)
WithinBounds(D) ==
  /\ Len(D.decision_nodes) <= MaxNodes
  /\ Len(D.decisions) <= MaxDecisions
  /\ Len(D.communications_queue) <= MaxQueue
  /\ Len(D.communications) <= MaxHistory
  /\ Len(D.decision_responses) <= MaxResponses
  /\ \A i \in DOMAIN D.active_scenarios : D.active_scenarios[i].elapsed_seconds <= MaxElapsed

\* the impact log before any decision was scored
NoImpacts ==
  /\ decision_impacts = << >>
  /\ scenario_states = << >>

\* the callers whose calls may overlap, and a caller with no call in flight
Callers == 1..MaxCallers
Idle == [op |-> "idle"]

\* no scenario was posted to the routes, nothing was evaluated, no call is in flight
NothingSaved ==
  /\ prisma = [Scenario |-> << >>, Waypoint |-> << >>, Decision |-> << >>,
               DecisionOption |-> << >>, CommunicationQueue |-> << >>]
  /\ scenario_evaluations = << >>
  /\ request = << >>
  /\ reply = << >>
  /\ inflight = [c \in Callers |-> Idle]

\* the scenario row as saved and the simulator page as mounted
PageMounted ==
  /\ scenario_is_active = FALSE
  /\ page = [isPaused |-> FALSE, fuel |-> ScenarioInitialFuel * 60]
  /\ httpTicks = 0
  /\ patched = << >>

\* the store after saveScenario: decisions inactive, queue rows unsent, no nodes
Init ==
  /\ active_scenarios = << >>
  /\ aircraft_positions = << >>
  /\ decision_nodes = << >>
  /\ decisions = [i \in 1..NumSavedDecisions |-> [is_active |-> FALSE]]
  /\ communications_queue \in
       [1..NumSavedComms -> [is_sent : {FALSE}, trigger_time : SavedTriggerTimes]]
  /\ communications = << >>
  /\ decision_responses = << >>
  /\ lastCall = [op |-> "saveScenario", outcome |-> "ok"]
  /\ NoImpacts
  /\ PageMounted
  /\ NothingSaved

Tick ==
  \E secondsElapsed \in Steps :
    \E r \in processScenarioTick(Store, secondsElapsed) :
      /\ WithinBounds(r.db)
      /\ Commit(r.db)
      /\ lastCall' = [op |-> "processScenarioTick", outcome |-> r.outcome]
      /\ UNCHANGED <<impactVars, httpVars, serviceVars>>

Pause ==
  LET r == pauseScenario(Store) IN
  /\ Commit(r.db)
  /\ lastCall' = [op |-> "pauseScenario", outcome |-> r.outcome]
  /\ UNCHANGED <<impactVars, httpVars, serviceVars>>

Resume ==
  LET r == resumeScenario(Store) IN
  /\ Commit(r.db)
  /\ lastCall' = [op |-> "resumeScenario", outcome |-> r.outcome]
  /\ UNCHANGED <<impactVars, httpVars, serviceVars>>

ProcessDecision ==
  \E decisionId \in DOMAIN decisions, k \in OptionKeys, gen \in Generations :
    LET r == processDecision(Store, decisionId, OptionId(decisionId, k), gen) IN
    /\ WithinBounds(r.db)
    /\ Commit(r.db)
    /\ lastCall' = [op |-> "processDecision", outcome |-> r.outcome]
    /\ UNCHANGED <<impactVars, httpVars, serviceVars>>

ActivateDecisionNode ==
  \E n \in DOMAIN decision_nodes :
    LET D == activateDecisionNode(Store, n) IN
    /\ WithinBounds(D)
    /\ Commit(D)
    /\ lastCall' = [op |-> "activateDecisionNode", outcome |-> "ok"]
    /\ UNCHANGED <<impactVars, httpVars, serviceVars>>

ActivateScenario ==
  \E defaultBurnRate \in BurnRates :
    /\ Commit(activateScenario(Store, defaultBurnRate))
    /\ lastCall' = [op |-> "activateScenario", outcome |-> "ok"]
    /\ UNCHANGED <<impactVars, httpVars, serviceVars>>

DeactivateScenario ==
  /\ Commit(deactivateScenario(Store))
  /\ lastCall' = [op |-> "deactivateScenario", outcome |-> "ok"]
  /\ UNCHANGED <<impactVars, httpVars, serviceVars>>

\* the decision tree advancing under ticks and submitted decisions
Next ==
  \/ ActivateScenario
  \/ Tick
  \/ ProcessDecision

Spec == Init /\ [][Next]_vars

\* the same, with activateDecisionNode also called directly on any stored node
NextDirect ==
  \/ ActivateScenario
  \/ Tick
  \/ ProcessDecision
  \/ ActivateDecisionNode

SpecDirect == Init /\ [][NextDirect]_vars

(***************************************************************************)
(* Timing and parameters: ticks, pause, resume, activation, deactivation,  *)
(* started from a store the calls above produce: either the saved          *)
(* scenario, or the scenario after it was activated and two decisions      *)
(* were processed, the first synthesizing a node and the second leaving    *)
(* that node inactive.                                                     *)
(***************************************************************************)
SavedStore(queue) ==
  [active_scenarios |-> << >>,
   aircraft_positions |-> << >>,
   decision_nodes |-> << >>,
   decisions |-> [i \in 1..NumSavedDecisions |-> [is_active |-> FALSE]],
   communications_queue |-> queue,
   communications |-> << >>,
   decision_responses |-> << >>]

PlayedStore(queue, gen) ==
  LET D1 == activateScenario(SavedStore(queue), 0)
      D2 == processDecision(D1, 1, OptionId(1, 2), gen).db
  IN processDecision(D2, Len(D2.decisions), OptionId(Len(D2.decisions), 1),
                     [gen EXCEPT !.parsed = FALSE]).db

PlayedGenerations ==
  {g \in Generations : g.parsed /\ g.ncomms = 1 /\ g.next_decision # << >>}

InitTiming ==
  /\ \E queue \in [1..NumSavedComms -> [is_sent : {FALSE}, trigger_time : SavedTriggerTimes]] :
       \E D \in {SavedStore(queue)} \cup {PlayedStore(queue, g) : g \in PlayedGenerations} :
         /\ active_scenarios = D.active_scenarios
         /\ aircraft_positions = D.aircraft_positions
         /\ decision_nodes = D.decision_nodes
         /\ decisions = D.decisions
         /\ communications_queue = D.communications_queue
         /\ communications = D.communications
         /\ decision_responses = D.decision_responses
  /\ lastCall = [op |-> "saveScenario", outcome |-> "ok"]
  /\ NoImpacts
  /\ PageMounted
  /\ NothingSaved

NextTiming ==
  \/ ActivateScenario
  \/ DeactivateScenario
  \/ Tick
  \/ Pause
  \/ Resume

SpecTiming == InitTiming /\ [][NextTiming]_vars

(***************************************************************************)
(* Decision impacts: processDecisionImpact on the saved scenario and on    *)
(* the activated one.                                                      *)
(***************************************************************************)
InitImpact ==
  /\ \E D \in {SavedStore(<<[is_sent |-> FALSE, trigger_time |-> << >>]>>),
               activateScenario(SavedStore(<<[is_sent |-> FALSE, trigger_time |-> << >>]>>), 0)} :
       /\ active_scenarios = D.active_scenarios
       /\ aircraft_positions = D.aircraft_positions
       /\ decision_nodes = D.decision_nodes
       /\ decisions = D.decisions
       /\ communications_queue = D.communications_queue
       /\ communications = D.communications
       /\ decision_responses = D.decision_responses
  /\ lastCall = [op |-> "saveScenario", outcome |-> "ok"]
  /\ NoImpacts
  /\ PageMounted
  /\ NothingSaved

ProcessDecisionImpact ==
  \E decisionId \in DOMAIN decisions, k \in OptionKeys,
     parsed \in BOOLEAN, impactData \in Impacts :
    LET r == processDecisionImpact(Store, decision_impacts, scenario_states,
                                   decisionId, OptionId(decisionId, k), parsed, impactData) IN
    /\ Len(r.states) <= MaxSnapshots
    /\ decision_impacts' = r.impacts
    /\ scenario_states' = r.states
    /\ lastCall' = [op |-> "processDecisionImpact", outcome |-> r.outcome]
    /\ UNCHANGED <<storeVars, httpVars, serviceVars>>

NextImpact == ProcessDecisionImpact

SpecImpact == InitImpact /\ [][NextImpact]_vars

(***************************************************************************)
(* The simulator page over the HTTP-backed engine.                         *)
(***************************************************************************)
\* the interval callback: one tick of one second, then the parameters are read back
TickInterval ==
  /\ ~page.isPaused
  /\ httpTicks < SimulatedSeconds
  /\ LET r == processScenarioTickHttp(scenario_is_active, TickIntervalSeconds) IN
       /\ scenario_is_active' = r.is_active
       /\ httpTicks' = IF r.outcome = "ok" THEN httpTicks + 1 ELSE httpTicks
       /\ patched' = IF r.outcome = "ok" THEN r.patched ELSE patched
       /\ lastCall' = [op |-> "tickInterval", outcome |-> r.outcome]
  /\ page' = [page EXCEPT !.fuel = ParametersGET.fuel]
  /\ UNCHANGED <<storeVars, impactVars, serviceVars>>

HandlePauseResume ==
  /\ LET r == IF page.isPaused THEN resumeScenarioHttp(scenario_is_active)
                               ELSE pauseScenarioHttp(scenario_is_active) IN
       /\ scenario_is_active' = r.is_active
       /\ page' = IF r.outcome = "ok" THEN [page EXCEPT !.isPaused = ~@] ELSE page
       /\ lastCall' = [op |-> "handlePauseResume", outcome |-> r.outcome]
  /\ UNCHANGED <<httpTicks, patched, storeVars, impactVars, serviceVars>>

\* activateScenario of the relational loader: the scenario starts over
ActivateScenarioHttp ==
  /\ scenario_is_active' = TRUE
  /\ httpTicks' = 0
  /\ patched' = << >>
  /\ lastCall' = [op |-> "activateScenarioHttp", outcome |-> "ok"]
  /\ UNCHANGED <<page, storeVars, impactVars, serviceVars>>

DeactivateScenarioHttp ==
  /\ scenario_is_active' = FALSE
  /\ lastCall' = [op |-> "deactivateScenarioHttp", outcome |-> "ok"]
  /\ UNCHANGED <<page, httpTicks, patched, storeVars, impactVars, serviceVars>>

NextHttp ==
  \/ ActivateScenarioHttp
  \/ DeactivateScenarioHttp
  \/ TickInterval
  \/ HandlePauseResume

SpecHttp == Init /\ [][NextHttp]_vars

(***************************************************************************)
(* Revisited branches: ticks and decisions on a tree that already has a    *)
(* parent node with a child.  The store is the one left by activating the  *)
(* scenario and processing three decisions: the first synthesizes node 1,  *)
(* the second synthesizes node 2 as its child for option B, the third      *)
(* deactivates node 2 and fails to synthesize.                             *)
(***************************************************************************)
BranchedStore(g1, g2) ==
  LET D1 == activateScenario(SavedStore(<<[is_sent |-> FALSE, trigger_time |-> << >>]>>), 0)
      D2 == processDecision(D1, 1, OptionId(1, 1), g1).db
      D3 == processDecision(D2, Len(D2.decisions), OptionId(Len(D2.decisions), 2), g2).db
  IN processDecision(D3, Len(D3.decisions), OptionId(Len(D3.decisions), 1),
                     [g2 EXCEPT !.parsed = FALSE]).db

WithinBranchBounds(D) ==
  /\ Len(D.decision_nodes) <= MaxBranchNodes
  /\ Len(D.decisions) <= MaxBranchDecisions
  /\ Len(D.communications_queue) <= MaxQueue
  /\ Len(D.communications) <= MaxHistory
  /\ Len(D.decision_responses) <= MaxBranchResponses
  /\ \A i \in DOMAIN D.active_scenarios : D.active_scenarios[i].elapsed_seconds <= MaxElapsed

InitBranch ==
  /\ \E g1, g2 \in {g \in BranchGenerations : g.parsed /\ g.next_decision # << >>} :
       LET D == BranchedStore(g1, g2) IN
       /\ WithinBranchBounds(D)
       /\ active_scenarios = D.active_scenarios
       /\ aircraft_positions = D.aircraft_positions
       /\ decision_nodes = D.decision_nodes
       /\ decisions = D.decisions
       /\ communications_queue = D.communications_queue
       /\ communications = D.communications
       /\ decision_responses = D.decision_responses
  /\ lastCall = [op |-> "processDecision", outcome |-> "error"]
  /\ NoImpacts
  /\ PageMounted
  /\ NothingSaved

TickBranch ==
  \E secondsElapsed \in Steps :
    \E r \in processScenarioTick(Store, secondsElapsed) :
      /\ WithinBranchBounds(r.db)
      /\ Commit(r.db)
      /\ lastCall' = [op |-> "processScenarioTick", outcome |-> r.outcome]
      /\ UNCHANGED <<impactVars, httpVars, serviceVars>>

ProcessDecisionBranch ==
  \E decisionId \in DOMAIN decisions, k \in OptionKeys, gen \in BranchGenerations :
    LET r == processDecision(Store, decisionId, OptionId(decisionId, k), gen) IN
    /\ WithinBranchBounds(r.db)
    /\ Commit(r.db)
    /\ lastCall' = [op |-> "processDecision", outcome |-> r.outcome]
    /\ UNCHANGED <<impactVars, httpVars, serviceVars>>

NextBranch ==
  \/ TickBranch
  \/ ProcessDecisionBranch

SpecBranch == InitBranch /\ [][NextBranch]_vars

(***************************************************************************)
(* Ticks under store failures.                                             *)
(***************************************************************************)
TickWithFaults ==
  \E secondsElapsed \in Steps, fault \in Faults :
    \E r \in processScenarioTickWithFaults(Store, secondsElapsed, fault) :
      /\ WithinBounds(r.db)
      /\ Commit(r.db)
      /\ lastCall' = [op |-> "processScenarioTick", outcome |-> r.outcome,
                      thrown |-> r.thrown]
      /\ UNCHANGED <<impactVars, httpVars, serviceVars>>

NextFaults ==
  \/ ActivateScenario
  \/ DeactivateScenario
  \/ TickWithFaults

SpecFaults == InitTiming /\ [][NextFaults]_vars

(***************************************************************************)
(* The simulator page when requests of the tick may fail.                  *)
(***************************************************************************)
TickIntervalWithFaults ==
  /\ ~page.isPaused
  /\ httpTicks < SimulatedSeconds
  /\ \E fault \in Faults :
       LET r == processScenarioTickHttpWithFaults(scenario_is_active,
                                                  TickIntervalSeconds, fault) IN
       /\ scenario_is_active' = r.is_active
       /\ httpTicks' = IF r.patched # << >> THEN httpTicks + 1 ELSE httpTicks
       /\ patched' = IF r.patched # << >> THEN r.patched ELSE patched
       /\ lastCall' = [op |-> "tickInterval", outcome |-> r.outcome, thrown |-> r.thrown]
  /\ page' = [page EXCEPT !.fuel = ParametersGET.fuel]
  /\ UNCHANGED <<storeVars, impactVars, serviceVars>>

NextHttpFaults ==
  \/ ActivateScenarioHttp
  \/ DeactivateScenarioHttp
  \/ TickIntervalWithFaults
  \/ HandlePauseResume

SpecHttpFaults == Init /\ [][NextHttpFaults]_vars

(***************************************************************************)
(* The HTTP parameter simulation called on its own.  What the parameters   *)
(* endpoint answers is an input: the route of this repository always       *)
(* answers with parameters, the function also accepts an answer without.   *)
(***************************************************************************)
SimulateContinuousChangesHttp ==
  \E response \in {<< >>, <<ParametersGET>>}, elapsedSeconds \in Steps :
    LET r == simulateContinuousChangesHttpGiven(response, elapsedSeconds) IN
    /\ patched' = IF r.ok THEN r.patches ELSE patched
    /\ lastCall' = [op |-> "simulateContinuousChangesHttp",
                    outcome |-> IF r.ok THEN "ok" ELSE "error",
                    found |-> response # << >>]
    /\ UNCHANGED <<scenario_is_active, page, httpTicks, storeVars, impactVars, serviceVars>>

NextHttpParameters ==
  \/ ActivateScenarioHttp
  \/ TickInterval
  \/ HandlePauseResume
  \/ SimulateContinuousChangesHttp

SpecHttpParameters == Init /\ [][NextHttpParameters]_vars

(***************************************************************************)
(* The scenarios routes: POST /api/scenarios saves a scenario and its      *)
(* children, GET /api/scenarios/[id] loads it back.  Row ids are indexes.  *)
(***************************************************************************)
\* texts a client supplies (the empty string included)
Texts == {"", "Divert"}
\* waypoint sequence numbers a client supplies
Sequences == {0, 1, 2}

SeqsUpTo(S, n) == UNION {[1..k -> S] : k \in 0..n}

\* the bodies a client posts
Bodies ==
  [title : Texts,
   waypoints : SeqsUpTo([sequence : Sequences], MaxWaypoints),
   decisions : SeqsUpTo([title : Texts,
                         options : SeqsUpTo([text : Texts, is_recommended : BOOLEAN],
                                            MaxBodyOptions)],
                        MaxBodyDecisions),
   communications : SeqsUpTo([message : Texts], MaxBodyComms)]

\* JavaScript's  text || fallback : the empty string is falsy
OrText(text, fallback) == IF text = "" THEN fallback ELSE text
\* JavaScript's  number || fallback : zero is falsy
OrNumber(number, fallback) == IF number = 0 THEN fallback ELSE number
\* JavaScript's  flag || false
OrFalse(flag) == IF flag THEN flag ELSE FALSE

RECURSIVE CreateOptions(_, _, _, _)
CreateOptions(options, rows, decisionId, scenarioId) ==
  IF options = << >> THEN rows
  ELSE CreateOptions(Tail(options),
         Append(rows, [decision_id |-> decisionId,
                       scenario_id |-> scenarioId,
                       text |-> OrText(Head(options).text, "Option"),
                       is_recommended |-> OrFalse(Head(options).is_recommended),
                       is_selected |-> FALSE]),
         decisionId, scenarioId)

RECURSIVE CreateDecisions(_, _, _)
CreateDecisions(decisionList, db, scenarioId) ==
  IF decisionList = << >> THEN db
  ELSE LET created == [scenario_id |-> scenarioId,
                       title |-> OrText(Head(decisionList).title, "Decision"),
                       is_active |-> FALSE,
                       is_completed |-> FALSE]
           db1 == [db EXCEPT !.Decision = Append(@, created)]
           db2 == [db1 EXCEPT !.DecisionOption =
                     CreateOptions(Head(decisionList).options, @,
                                   Len(db1.Decision), scenarioId)]
       IN CreateDecisions(Tail(decisionList), db2, scenarioId)

\* POST /api/scenarios: the tables after the request and the answer
POST(db, data) ==
  IF data.title = ""
  THEN [db |-> db, reply |-> [op |-> "POST", status |-> 400]]
  ELSE LET db1 == [db EXCEPT !.Scenario = Append(@, [title |-> data.title])]
           id == Len(db1.Scenario)
           db2 == [db1 EXCEPT !.Waypoint = @ \o
                     [i \in DOMAIN data.waypoints |->
                        [scenario_id |-> id,
                         sequence |-> OrNumber(data.waypoints[i].sequence, 0)]]]
           db3 == CreateDecisions(data.decisions, db2, id)
           db4 == [db3 EXCEPT !.CommunicationQueue = @ \o
                     [i \in DOMAIN data.communications |->
                        [scenario_id |-> id,
                         message |-> OrText(data.communications[i].message, ""),
                         is_sent |-> FALSE]]]
       IN [db |-> db4, reply |-> [op |-> "POST", status |-> 200, id |-> id]]

\* the rows of a table that belong to a parent, in every order the query may give
RowsOf(table, column, parent) ==
  LET ids == {i \in DOMAIN table : table[i][column] = parent}
  IN {[k \in DOMAIN order |-> table[order[k]]] : order \in Orders(ids)}

\* GET /api/scenarios/[id]: the answers the route may give
GET(db, id) ==
  IF id \notin DOMAIN db.Scenario
  THEN {[op |-> "GET", status |-> 404]}
  ELSE LET decisionIds == {i \in DOMAIN db.Decision : db.Decision[i].scenario_id = id}
           waypointOrders ==
             {w \in RowsOf(db.Waypoint, "scenario_id", id) :
                \A i, j \in DOMAIN w : i < j => w[i].sequence <= w[j].sequence}
           optionChoices ==
             {f \in [decisionIds -> UNION {RowsOf(db.DecisionOption, "decision_id", d) :
                                              d \in decisionIds}] :
                \A d \in decisionIds : f[d] \in RowsOf(db.DecisionOption, "decision_id", d)}
       IN {[op |-> "GET", status |-> 200,
            scenario |->
              [id |-> id,
               title |-> db.Scenario[id].title,
               waypoints |-> [k \in DOMAIN w |-> [sequence |-> w[k].sequence]],
               decisions |->
                 [k \in DOMAIN order |->
                    [title |-> db.Decision[order[k]].title,
                     options |->
                       [n \in DOMAIN opts[order[k]] |->
                          [text |-> opts[order[k]][n].text,
                           is_recommended |-> OrFalse(opts[order[k]][n].is_recommended)]]]],
               communications |-> [k \in DOMAIN c |-> [message |-> c[k].message]]]] :
            w \in waypointOrders,
            order \in Orders(decisionIds),
            opts \in optionChoices,
            c \in RowsOf(db.CommunicationQueue, "scenario_id", id)}

\* a client holds a scenario to post; nothing is saved yet
InitRoundTrip ==
  /\ active_scenarios = << >>
  /\ aircraft_positions = << >>
  /\ decision_nodes = << >>
  /\ decisions = << >>
  /\ communications_queue = << >>
  /\ communications = << >>
  /\ decision_responses = << >>
  /\ lastCall = [op |-> "none", outcome |-> "ok"]
  /\ NoImpacts
  /\ PageMounted
  /\ prisma = [Scenario |-> << >>, Waypoint |-> << >>, Decision |-> << >>,
               DecisionOption |-> << >>, CommunicationQueue |-> << >>]
  /\ scenario_evaluations = << >>
  /\ request \in Bodies
  /\ reply = << >>
  /\ inflight = [c \in Callers |-> Idle]

\* the client posts the scenario it holds
PostScenario ==
  /\ prisma.Scenario = << >>
  /\ LET r == POST(prisma, request) IN
       /\ prisma' = r.db
       /\ reply' = r.reply
       /\ lastCall' = [op |-> "POST", outcome |-> IF r.reply.status = 200 THEN "ok" ELSE "error"]
  /\ UNCHANGED <<storeVars, impactVars, httpVars, scenario_evaluations, request, inflight>>

\* the client loads the scenario whose id the POST answered
GetScenario ==
  /\ reply # << >>
  /\ reply.op = "POST"
  /\ reply.status = 200
  /\ reply' \in GET(prisma, reply.id)
  /\ lastCall' = [op |-> "GET", outcome |-> "ok"]
  /\ UNCHANGED <<storeVars, impactVars, httpVars, prisma, scenario_evaluations, request, inflight>>

NextRoundTrip ==
  \/ PostScenario
  \/ GetScenario

SpecRoundTrip == InitRoundTrip /\ [][NextRoundTrip]_vars

(***************************************************************************)
(* evaluateScenario.  A ratio is kept exact, as numerator and denominator. *)
(***************************************************************************)
\* a decision response joined with its option (null when the option is gone)
JoinedResponses ==
  {<< >>, <<[is_recommended |-> TRUE]>>, <<[is_recommended |-> FALSE]>>}

\* what the queries of evaluateScenario return
EvaluationInputs ==
  [stateData : {<< >>, <<[current_safety_score |-> 100]>>},
   decisionsData : SeqsUpTo([decision_options : JoinedResponses], MaxEvaluatedResponses)]

\* Math.round(ratio * 100) of a ratio that is not negative
RoundedPercent(ratio) == (200 * ratio.num + ratio.den) \div (2 * ratio.den)
\* Math.floor(ratio * 100)
FlooredPercent(ratio) == (100 * ratio.num) \div ratio.den

RecommendedChoices(decisionsData) ==
  Cardinality({i \in DOMAIN decisionsData :
                 /\ decisionsData[i].decision_options # << >>
                 /\ decisionsData[i].decision_options[1].is_recommended})

\* mutant: the percentage is cut off, not rounded
evaluateScenario_floorsPercent(evaluations, data, parsed) ==
  IF data.stateData = << >>
  THEN [evaluations |-> evaluations,
        reply |-> [op |-> "evaluateScenario", outcome |-> "error", prompted |-> FALSE]]
  ELSE LET recommendedChoices == RecommendedChoices(data.decisionsData)
           totalChoices == Len(data.decisionsData)
           recommendedRatio == IF totalChoices > 0
                               THEN [num |-> recommendedChoices, den |-> totalChoices]
                               ELSE [num |-> 0, den |-> 1]
           prompt == [recommendedChoices |-> recommendedChoices,
                      totalChoices |-> totalChoices,
                      percent |-> FlooredPercent(recommendedRatio)]
       IN [evaluations |-> IF parsed
                           THEN Append(evaluations, [safety_score |-> 100])
                           ELSE evaluations,
           reply |-> [op |-> "evaluateScenario",
                      outcome |-> IF parsed THEN "ok" ELSE "error",
                      prompted |-> TRUE,
                      recommendedRatio |-> recommendedRatio,
                      prompt |-> prompt]]

\* evaluateScenario: the stored evaluations afterwards, and what the call
\* computed, put in the prompt and ended with
evaluateScenario(evaluations, data, parsed) ==
  IF data.stateData = << >>
  THEN [evaluations |-> evaluations,
        reply |-> [op |-> "evaluateScenario", outcome |-> "error", prompted |-> FALSE]]
  ELSE LET recommendedChoices == RecommendedChoices(data.decisionsData)
           totalChoices == Len(data.decisionsData)
           recommendedRatio == IF totalChoices > 0
                               THEN [num |-> recommendedChoices, den |-> totalChoices]
                               ELSE [num |-> 0, den |-> 1]
           prompt == [recommendedChoices |-> recommendedChoices,
                      totalChoices |-> totalChoices,
                      percent |-> RoundedPercent(recommendedRatio)]
       IN [evaluations |-> IF parsed
                           THEN Append(evaluations, [safety_score |-> 100])
                           ELSE evaluations,
           reply |-> [op |-> "evaluateScenario",
                      outcome |-> IF parsed THEN "ok" ELSE "error",
                      prompted |-> TRUE,
                      recommendedRatio |-> recommendedRatio,
                      prompt |-> prompt]]

\* a played scenario: its final state and its decision responses are stored
InitEvaluation ==
  /\ active_scenarios = << >>
  /\ aircraft_positions = << >>
  /\ decision_nodes = << >>
  /\ decisions = << >>
  /\ communications_queue = << >>
  /\ communications = << >>
  /\ decision_responses = << >>
  /\ lastCall = [op |-> "none", outcome |-> "ok"]
  /\ NoImpacts
  /\ PageMounted
  /\ prisma = [Scenario |-> << >>, Waypoint |-> << >>, Decision |-> << >>,
               DecisionOption |-> << >>, CommunicationQueue |-> << >>]
  /\ scenario_evaluations = << >>
  /\ request \in EvaluationInputs
  /\ reply = << >>
  /\ inflight = [c \in Callers |-> Idle]

EvaluateScenario ==
  /\ Len(scenario_evaluations) < MaxEvaluations
  /\ \E parsed \in BOOLEAN :
       LET r == evaluateScenario(scenario_evaluations, request, parsed) IN
       /\ scenario_evaluations' = r.evaluations
       /\ reply' = r.reply
       /\ lastCall' = [op |-> "evaluateScenario", outcome |-> r.reply.outcome]
  /\ UNCHANGED <<storeVars, impactVars, httpVars, prisma, request, inflight>>

NextEvaluation == EvaluateScenario

SpecEvaluation == InitEvaluation /\ [][NextEvaluation]_vars

(***************************************************************************)
(* processDecisionImpact when a store call of one of its steps fails.      *)
(***************************************************************************)
\* the step whose store call fails, if any
ImpactFaults == {"none", "saveDecisionImpact", "updateScenarioState"}

\* the three steps run in order and the first failure ends the call; what an
\* earlier step stored stays stored
processDecisionImpactWithFaults(D, impacts, states, decisionId, optionId, parsed, impactData, fault) ==
  LET c == calculateDecisionImpact(D, decisionId, optionId, parsed, impactData) IN
  IF ~c.ok
  THEN [impacts |-> impacts, states |-> states, outcome |-> "error"]
  ELSE IF fault = "saveDecisionImpact"
  THEN [impacts |-> impacts, states |-> states, outcome |-> "error"]
  ELSE LET saved == saveDecisionImpact(impacts, c.impact)
           u == updateScenarioState(D, states, c.impact)
       IN IF fault = "updateScenarioState"
          THEN [impacts |-> saved, states |-> states, outcome |-> "error"]
          ELSE [impacts |-> saved, states |-> u.states,
                outcome |-> IF u.ok THEN "ok" ELSE "error"]

ProcessDecisionImpactWithFaults ==
  \E decisionId \in DOMAIN decisions, k \in OptionKeys,
     parsed \in BOOLEAN, impactData \in Impacts, fault \in ImpactFaults :
    LET r == processDecisionImpactWithFaults(Store, decision_impacts, scenario_states,
                                             decisionId, OptionId(decisionId, k),
                                             parsed, impactData, fault) IN
    /\ Len(r.states) <= MaxSnapshots
    /\ Len(r.impacts) <= MaxSnapshots
    /\ decision_impacts' = r.impacts
    /\ scenario_states' = r.states
    /\ lastCall' = [op |-> "processDecisionImpact", outcome |-> r.outcome]
    /\ UNCHANGED <<storeVars, httpVars, serviceVars>>

NextImpactFaults == ProcessDecisionImpactWithFaults

SpecImpactFaults == InitImpact /\ [][NextImpactFaults]_vars

(***************************************************************************)
(* Overlapping processDecisionImpact calls.  A call is in flight between   *)
(* the reads of updateScenarioState (latest snapshot, parameter row) and   *)
(* its insert; other calls may run in between.                             *)
(***************************************************************************)
InFlight == {c \in Callers : inflight[c] # Idle}

\* calculateDecisionImpact, saveDecisionImpact and the reads of
\* updateScenarioState
ProcessDecisionImpactBegin(c) ==
  /\ inflight[c] = Idle
  /\ Len(scenario_states) + Cardinality(InFlight) < MaxSnapshots
  /\ \E decisionId \in DOMAIN decisions, k \in OptionKeys,
        parsed \in BOOLEAN, impactData \in Impacts :
       LET calc == calculateDecisionImpact(Store, decisionId, OptionId(decisionId, k),
                                           parsed, impactData) IN
       IF ~calc.ok
       THEN /\ lastCall' = [op |-> "processDecisionImpact", outcome |-> "error"]
            /\ UNCHANGED <<decision_impacts, inflight>>
       ELSE /\ decision_impacts' = saveDecisionImpact(decision_impacts, calc.impact)
            /\ inflight' = [inflight EXCEPT ![c] =
                              [op |-> "updateScenarioState",
                               impact |-> calc.impact,
                               stateData |-> scenario_states,
                               aircraftData |-> aircraft_positions]]
            /\ lastCall' = [op |-> "saveDecisionImpact", outcome |-> "ok"]
  /\ UNCHANGED <<storeVars, scenario_states, httpVars,
                 prisma, scenario_evaluations, request, reply>>

\* the insert of updateScenarioState: the new state computed from what the
\* call read
ProcessDecisionImpactFinish(c) ==
  /\ inflight[c] # Idle
  /\ inflight[c].op = "updateScenarioState"
  /\ LET u == updateScenarioState([aircraft_positions |-> inflight[c].aircraftData],
                                  inflight[c].stateData, inflight[c].impact)
     IN scenario_states' = Append(scenario_states, u.states[Len(u.states)])
  /\ inflight' = [inflight EXCEPT ![c] = Idle]
  /\ lastCall' = [op |-> "processDecisionImpact", outcome |-> "ok"]
  /\ UNCHANGED <<storeVars, decision_impacts, httpVars,
                 prisma, scenario_evaluations, request, reply>>

NextImpactOverlap ==
  \E c \in Callers :
    \/ ProcessDecisionImpactBegin(c)
    \/ ProcessDecisionImpactFinish(c)

SpecImpactOverlap == InitImpact /\ [][NextImpactOverlap]_vars

(***************************************************************************)
(* Overlapping ticks, pauses and resumes of the store-backed engine.  The  *)
(* page starts a tick every interval without waiting for the one before,   *)
(* and a pause or resume is a request of its own; each call runs from one  *)
(* store call to the next, and other calls run in between.                 *)
(***************************************************************************)
\* processScenarioTick: getScenarioTiming
TickGetTiming(c) ==
  /\ inflight[c] = Idle
  /\ LET timing == getScenarioTiming(Store) IN
       IF timing = << >> \/ timing[1].is_paused
       THEN /\ inflight' = inflight
            /\ lastCall' = [op |-> "processScenarioTick", outcome |-> "noop"]
       ELSE /\ timing[1].elapsed_seconds + TickIntervalSeconds <= MaxElapsed
            /\ inflight' = [inflight EXCEPT ![c] =
                 [op |-> "processScenarioTick", at |-> "updateScenarioTiming",
                  newElapsedSeconds |-> timing[1].elapsed_seconds + TickIntervalSeconds]]
            /\ lastCall' = [op |-> "getScenarioTiming", outcome |-> "ok"]
  /\ UNCHANGED <<storeVars, impactVars, httpVars,
                 prisma, scenario_evaluations, request, reply>>

\* processScenarioTick: updateScenarioTiming, then simulateContinuousChanges
TickUpdateTiming(c) ==
  /\ inflight[c] # Idle
  /\ inflight[c].op = "processScenarioTick"
  /\ inflight[c].at = "updateScenarioTiming"
  /\ LET D1 == updateScenarioTiming(Store, inflight[c].newElapsedSeconds, FALSE)
         sim == simulateContinuousChanges(D1, TickIntervalSeconds)
     IN /\ Commit(sim.db)
        /\ inflight' = [inflight EXCEPT ![c] =
             IF sim.ok THEN [@ EXCEPT !.at = "checkTimeTriggers"] ELSE Idle]
        /\ lastCall' = [op |-> "processScenarioTick",
                        outcome |-> IF sim.ok THEN "updated" ELSE "error"]
  /\ UNCHANGED <<impactVars, httpVars, prisma, scenario_evaluations, request, reply>>

\* checkTimeTriggers and checkCommunicationsTriggers: the query for the due
\* rows, which the loop that follows works through
TickQueryDue(c) ==
  /\ inflight[c] # Idle
  /\ inflight[c].op = "processScenarioTick"
  /\ inflight[c].at \in {"checkTimeTriggers", "checkCommunicationsTriggers"}
  /\ "data" \notin DOMAIN inflight[c]
  /\ \E data \in Orders(IF inflight[c].at = "checkTimeTriggers"
                        THEN DueNodes(Store, inflight[c].newElapsedSeconds)
                        ELSE DueComms(Store, inflight[c].newElapsedSeconds)) :
       inflight' = [inflight EXCEPT ![c] =
         IF data # << >>
         THEN [op |-> "processScenarioTick", at |-> @.at,
               newElapsedSeconds |-> @.newElapsedSeconds, data |-> data]
         ELSE IF @.at = "checkTimeTriggers"
         THEN [@ EXCEPT !.at = "checkCommunicationsTriggers"]
         ELSE Idle]
  /\ lastCall' = [op |-> inflight[c].at, outcome |-> "queried"]
  /\ UNCHANGED <<storeVars, impactVars, httpVars,
                 prisma, scenario_evaluations, request, reply>>

\* one round of the loop: activateDecisionNode on the next row of
\* checkTimeTriggers, or the is_sent update and the insert into the history
\* for the next row of checkCommunicationsTriggers
TickApplyDue(c) ==
  /\ inflight[c] # Idle
  /\ inflight[c].op = "processScenarioTick"
  /\ "data" \in DOMAIN inflight[c]
  /\ LET id == Head(inflight[c].data)
         D == IF inflight[c].at = "checkTimeTriggers"
              THEN activateDecisionNode(Store, id)
              ELSE checkCommunicationsTriggers(Store, <<id>>)
     IN /\ WithinBounds(D)
        /\ Commit(D)
        /\ lastCall' = [op |-> inflight[c].at, outcome |-> "applied", id |-> id]
  /\ inflight' = [inflight EXCEPT ![c] =
       IF Tail(@.data) # << >>
       THEN [@ EXCEPT !.data = Tail(@)]
       ELSE IF @.at = "checkTimeTriggers"
       THEN [op |-> "processScenarioTick", at |-> "checkCommunicationsTriggers",
             newElapsedSeconds |-> @.newElapsedSeconds]
       ELSE Idle]
  /\ UNCHANGED <<impactVars, httpVars, prisma, scenario_evaluations, request, reply>>

\* pauseScenario / resumeScenario: getScenarioTiming
SetPausedGetTiming(c) ==
  /\ inflight[c] = Idle
  /\ \E isPaused \in BOOLEAN :
       LET timing == getScenarioTiming(Store)
           name == IF isPaused THEN "pauseScenario" ELSE "resumeScenario"
       IN IF timing = << >>
          THEN /\ inflight' = inflight
               /\ lastCall' = [op |-> name, outcome |-> "error"]
          ELSE /\ inflight' = [inflight EXCEPT ![c] =
                    [op |-> name, isPaused |-> isPaused,
                     elapsed_seconds |-> timing[1].elapsed_seconds]]
               /\ lastCall' = [op |-> "getScenarioTiming", outcome |-> "ok"]
  /\ UNCHANGED <<storeVars, impactVars, httpVars,
                 prisma, scenario_evaluations, request, reply>>

\* pauseScenario / resumeScenario: updateScenarioTiming with what was read
SetPausedUpdate(c) ==
  /\ inflight[c] # Idle
  /\ inflight[c].op \in {"pauseScenario", "resumeScenario"}
  /\ Commit(updateScenarioTiming(Store, inflight[c].elapsed_seconds, inflight[c].isPaused))
  /\ inflight' = [inflight EXCEPT ![c] = Idle]
  /\ lastCall' = [op |-> inflight[c].op, outcome |-> "ok"]
  /\ UNCHANGED <<impactVars, httpVars, prisma, scenario_evaluations, request, reply>>

\* the scenario is active: just activated, or activated and played
InitOverlap ==
  /\ \E queue \in [1..NumSavedComms -> [is_sent : {FALSE}, trigger_time : SavedTriggerTimes]] :
       \E D \in {activateScenario(SavedStore(queue), 0)}
                 \cup {PlayedStore(queue, g) : g \in PlayedGenerations} :
         /\ active_scenarios = D.active_scenarios
         /\ aircraft_positions = D.aircraft_positions
         /\ decision_nodes = D.decision_nodes
         /\ decisions = D.decisions
         /\ communications_queue = D.communications_queue
         /\ communications = D.communications
         /\ decision_responses = D.decision_responses
  /\ lastCall = [op |-> "activateScenario", outcome |-> "ok"]
  /\ NoImpacts
  /\ PageMounted
  /\ NothingSaved

NextOverlap ==
  \E c \in Callers :
    \/ TickGetTiming(c)
    \/ TickUpdateTiming(c)
    \/ TickQueryDue(c)
    \/ TickApplyDue(c)
    \/ SetPausedGetTiming(c)
    \/ SetPausedUpdate(c)

SpecOverlap == InitOverlap /\ [][NextOverlap]_vars

(***************************************************************************)
(* processDecision when one of its own store writes fails.  The store      *)
(* client reports a failed write in the error field of its result; a call  *)
(* that does not read that field carries on as if the write had happened.  *)
(***************************************************************************)
\* the write that fails, if any: the insert of the response, the update of
\* the decision, or the update of the current node
DecisionFaults == {"none", "recordResponse", "deactivateDecision", "deactivateNode"}

processDecisionWithFaults(D, decisionId, optionId, gen, fault) ==
  LET D1 == IF fault = "recordResponse" THEN D
            ELSE [D EXCEPT !.decision_responses =
                    Append(@, [decision_id |-> decisionId, option_id |-> optionId])]
      D2 == IF fault = "deactivateDecision" THEN D1
            ELSE [D1 EXCEPT !.decisions[decisionId].is_active = FALSE]
      currentNode == Single(ActiveNodes(D2))
      D3 == IF currentNode # << >> /\ fault # "deactivateNode"
            THEN [D2 EXCEPT !.decision_nodes[currentNode[1]].is_active = FALSE]
            ELSE D2
      nextNode == Single(ChildNodes(D3, currentNode, optionId))
  IN IF nextNode # << >>
     THEN [db |-> activateDecisionNode(D3, nextNode[1]), outcome |-> "ok"]
     ELSE LET g == generateNextNode(D3, decisionId, optionId, currentNode, gen)
          IN [db |-> g.db, outcome |-> g.outcome]

ProcessDecisionWithFaults ==
  \E decisionId \in DOMAIN decisions, k \in OptionKeys, gen \in BranchGenerations,
     fault \in DecisionFaults :
    LET r == processDecisionWithFaults(Store, decisionId, OptionId(decisionId, k),
                                       gen, fault) IN
    /\ WithinBounds(r.db)
    /\ Commit(r.db)
    /\ lastCall' = [op |-> "processDecision", outcome |-> r.outcome, fault |-> fault]
    /\ UNCHANGED <<impactVars, httpVars, serviceVars>>

NextDecisionFaults == ProcessDecisionWithFaults

SpecDecisionFaults == InitImpact /\ [][NextDecisionFaults]_vars

(***************************************************************************)
(* The store-backed engine with ticks that keep being issued: the interval *)
(* of the simulator calls processScenarioTick again and again.             *)
(***************************************************************************)
\* the history is left to grow: the calls are what is bounded
WithinLiveBounds(D) ==
  /\ Len(D.decision_nodes) <= MaxNodes
  /\ Len(D.decisions) <= MaxDecisions
  /\ Len(D.communications_queue) <= MaxQueue
  /\ Len(D.decision_responses) <= MaxResponses
  /\ \A i \in DOMAIN D.active_scenarios : D.active_scenarios[i].elapsed_seconds <= MaxElapsed

\* a tick of the interval: a positive number of seconds.  Every trigger_time
\* of the model is at most MaxElapsed, so a tick past MaxElapsed selects the
\* rows the tick that reaches MaxElapsed selects: a row unsent there, with
\* no trigger_time, is selected by no later tick either.
TickLive ==
  \E secondsElapsed \in Steps \ {0} :
    \E r \in processScenarioTick(Store, secondsElapsed) :
      /\ WithinLiveBounds(r.db)
      /\ Commit(r.db)
      /\ lastCall' = [op |-> "processScenarioTick", outcome |-> r.outcome]
      /\ UNCHANGED <<impactVars, httpVars, serviceVars>>

ProcessDecisionLive ==
  \E decisionId \in DOMAIN decisions, k \in OptionKeys, gen \in Generations :
    LET r == processDecision(Store, decisionId, OptionId(decisionId, k), gen) IN
    /\ WithinLiveBounds(r.db)
    /\ Commit(r.db)
    /\ lastCall' = [op |-> "processDecision", outcome |-> r.outcome]
    /\ UNCHANGED <<impactVars, httpVars, serviceVars>>

NextLive ==
  \/ TickLive
  \/ ProcessDecisionLive

SpecLive == InitOverlap /\ [][NextLive]_vars /\ WF_vars(TickLive)

TypeOK ==
  /\ Len(active_scenarios) <= 1
  /\ Len(aircraft_positions) <= 1
  /\ WithinBounds(Store)

(***************************************************************************)
(* Decision tree properties.                                               *)
(***************************************************************************)
Responded(d) ==
  \E i \in DOMAIN decision_responses : decision_responses[i].decision_id = d

Copies(c) == Cardinality({i \in DOMAIN communications : communications[i] = c})

\* C1: in every state reached by ticks, processDecision and activateDecisionNode
\* calls, at most one DecisionNode of the scenario has is_active = TRUE.
C1_AtMostOneActiveNode == Cardinality(ActiveNodes(Store)) <= 1

\* C2: a Decision for which a response is recorded, and which processDecision
\* set inactive, is not active in any later state.
C2_RespondedDecisionNeverReactivated ==
  [][\A d \in DOMAIN decisions :
       (Responded(d) /\ ~decisions[d].is_active) => ~decisions'[d].is_active]_vars

\* C3: every CommunicationQueueItem is copied into the Communication history
\* at most once.
C3_QueueItemCopiedAtMostOnce ==
  \A c \in DOMAIN communications_queue : Copies(c) <= 1

\* C4: activateDecisionNode on a node that is already active leaves the
\* Communication history with exactly the entries it had.
C4_ActivateActiveNodeKeepsHistory ==
  [][(/\ lastCall'.op = "activateDecisionNode"
      /\ \E n \in DOMAIN decision_nodes :
           /\ decision_nodes[n].is_active
           /\ Commit(activateDecisionNode(Store, n)))
     => communications' = communications]_vars

(***************************************************************************)
(* Timing and parameter properties.                                        *)
(***************************************************************************)
TickCompleted == lastCall = [op |-> "processScenarioTick", outcome |-> "ok"]
TickWasNoop == lastCall = [op |-> "processScenarioTick", outcome |-> "noop"]

\* C5: across a tick the stored elapsed_seconds does not decrease, and a tick
\* on a paused scenario leaves elapsed_seconds unchanged.
C5_TickMonotonic ==
  [][(lastCall'.op = "processScenarioTick" /\ active_scenarios # << >>) =>
       /\ active_scenarios' # << >>
       /\ active_scenarios'[1].elapsed_seconds >= active_scenarios[1].elapsed_seconds
       /\ (active_scenarios[1].is_paused =>
             active_scenarios'[1].elapsed_seconds = active_scenarios[1].elapsed_seconds)]_vars

\* a tick has advanced an unpaused scenario to two elapsed seconds or more
C5_Witness ==
  /\ TickCompleted
  /\ active_scenarios # << >>
  /\ active_scenarios[1].elapsed_seconds >= 2

\* C7: a tick on a scenario without timing record, or with a paused one,
\* changes nothing in the store.
C7_TickNoopFrame ==
  [][(/\ lastCall'.op = "processScenarioTick"
      /\ (active_scenarios = << >> \/ active_scenarios[1].is_paused))
     => UNCHANGED storeVars]_vars

\* a tick returned early on a paused scenario that had a node due
C7_Witness ==
  /\ TickWasNoop
  /\ active_scenarios # << >>
  /\ active_scenarios[1].is_paused
  /\ DueNodes(Store, active_scenarios[1].elapsed_seconds) # {}

\* C8: the fuel a completed tick writes is max(0, fuel - burnRate/60*elapsed)
\* (in sixtieths of a pound: max(0, fuel - burnRate*elapsed)), and it is
\* never negative.
C8_FuelFormula ==
  [][lastCall' = [op |-> "processScenarioTick", outcome |-> "ok"] =>
       LET elapsed == active_scenarios'[1].elapsed_seconds - active_scenarios[1].elapsed_seconds
           burned == aircraft_positions[1].fuel_burn_rate * elapsed
           fuel == aircraft_positions[1].fuel
       IN /\ aircraft_positions'[1].fuel = (IF fuel - burned > 0 THEN fuel - burned ELSE 0)
          /\ aircraft_positions'[1].fuel >= 0]_vars

\* a tick burned more than the fuel that was left and stored zero
C8_Witness ==
  /\ TickCompleted
  /\ aircraft_positions[1].fuel = 0
  /\ aircraft_positions[1].fuel_burn_rate > 0
  /\ active_scenarios[1].elapsed_seconds = 2

(***************************************************************************)
(* HTTP-backed timing and fuel properties.                                 *)
(***************************************************************************)
\* C6: after a completed tick of s seconds on an unpaused scenario whose
\* elapsed_seconds read e, the ScenarioTiming read back has elapsed_seconds
\* e + s and is not paused (hence e + k*s after k such ticks).
C6_ElapsedReadBack ==
  [][lastCall' = [op |-> "tickInterval", outcome |-> "ok"] =>
       TimingGET(scenario_is_active') =
         <<[is_paused |-> FALSE,
            elapsed_seconds |->
              TimingGET(scenario_is_active)[1].elapsed_seconds + TickIntervalSeconds]>>]_vars

\* C9: a scenario with initial_fuel 15000 and fuel_burn_rate 50 shows fuel
\* 14950 once the page has completed 60 ticks of one second.
C9_FuelAfterSixtyTicks ==
  httpTicks = SimulatedSeconds =>
    page.fuel = (ScenarioInitialFuel * 60
                 - ScenarioFuelBurnRate * TickIntervalSeconds * SimulatedSeconds)

(***************************************************************************)
(* Decision impact properties.                                             *)
(***************************************************************************)
\* C10: in every ScenarioState snapshot the safety, efficiency and passenger
\* comfort scores lie in 0..100, whatever the impacts were.
C10_ScoresInRange ==
  \A i \in DOMAIN scenario_states :
    /\ scenario_states[i].current_safety_score \in 0..100
    /\ scenario_states[i].current_efficiency_score \in 0..100
    /\ scenario_states[i].current_passenger_comfort_score \in 0..100

\* a snapshot was appended whose safety score was floored at 0 while its
\* efficiency score was capped at 100
C10_Witness ==
  /\ lastCall = [op |-> "processDecisionImpact", outcome |-> "ok"]
  /\ scenario_states # << >>
  /\ scenario_states[Len(scenario_states)].current_safety_score = 0
  /\ scenario_states[Len(scenario_states)].current_efficiency_score = 100
  /\ decision_impacts[Len(decision_impacts)].safety_impact = -150
  /\ decision_impacts[Len(decision_impacts)].efficiency_impact = 5

(***************************************************************************)
(* Synthesized decisions and their trigger times.                          *)
(***************************************************************************)
\* C11: a Decision synthesized by processDecision is active on return exactly
\* when its trigger_time is zero or absent; one synthesized with trigger_time
\* T > 0 and not yet answered is active after a completed tick whose new
\* elapsed_seconds is at least T.
C11_SynthesizedDecisionActivation ==
  [][/\ (/\ lastCall'.op = "processDecision"
         /\ Len(decisions') = Len(decisions) + 1)
        => (decisions'[Len(decisions')].is_active
              <=> decision_nodes'[Len(decision_nodes')].trigger_time = 0)
     /\ lastCall' = [op |-> "processScenarioTick", outcome |-> "ok"]
        => \A n \in DOMAIN decision_nodes :
             (/\ decision_nodes[n].decision_id # << >>
              /\ decision_nodes[n].trigger_time > 0
              /\ decision_nodes[n].trigger_time <= active_scenarios'[1].elapsed_seconds
              /\ ~Responded(decision_nodes[n].decision_id[1]))
             => decisions'[decision_nodes[n].decision_id[1]].is_active]_vars

(***************************************************************************)
(* Revisited branch properties.                                            *)
(***************************************************************************)
\* C12: processDecision(D, B) on an active Decision D whose node is the one
\* active node and has a child stored for option B records the response
\* (D, B), leaves D and the former current node inactive and the child
\* active, and synthesizes nothing: the call ends the same way whatever the
\* generator would have answered.
C12_PreexistingChildActivated ==
  [][\A c, ch \in DOMAIN decision_nodes :
       LET r == decision_responses'[Len(decision_responses')] IN
       (/\ lastCall'.op = "processDecision"
        /\ Len(decision_responses') = Len(decision_responses) + 1
        /\ ActiveNodes(Store) = {c}
        /\ decision_nodes[c].decision_id = <<r.decision_id>>
        /\ decisions[r.decision_id].is_active
        /\ ch \in ChildNodes(Store, <<c>>, r.option_id))
       => /\ lastCall'.outcome = "ok"
          /\ ~decisions'[r.decision_id].is_active
          /\ ~decision_nodes'[c].is_active
          /\ decision_nodes'[ch].is_active
          /\ Len(decision_nodes') = Len(decision_nodes)
          /\ Len(decisions') = Len(decisions)
          /\ Len(communications_queue') = Len(communications_queue)]_vars

\* the fourth decision was answered on the re-activated node 1 and its stored
\* child, node 2, was activated in its place
C12_Witness ==
  /\ lastCall = [op |-> "processDecision", outcome |-> "ok"]
  /\ Len(decision_responses) = 4
  /\ decision_responses[4] = [decision_id |-> 2, option_id |-> OptionId(2, 2)]
  /\ Len(decision_nodes) = 2
  /\ decision_nodes[2].parent_node_id = <<1>>
  /\ ~decision_nodes[1].is_active
  /\ decision_nodes[2].is_active
  /\ ~decisions[2].is_active

(***************************************************************************)
(* Tick failure properties.                                                *)
(***************************************************************************)
\* C13: a tick whose parameter simulation fails keeps the advanced
\* elapsed_seconds and still runs both trigger checks: afterwards no node
\* that was inactive and due at the new elapsed_seconds is inactive, and no
\* queue item that was unsent and due is unsent.
C13_SimulationFailureContinues ==
  [][(lastCall'.op = "processScenarioTick" /\ lastCall'.outcome = "simulationFailed") =>
       /\ \E secondsElapsed \in Steps :
            active_scenarios'[1].elapsed_seconds =
              active_scenarios[1].elapsed_seconds + secondsElapsed
       /\ \A n \in DueNodes(Store, active_scenarios'[1].elapsed_seconds) :
            decision_nodes'[n].is_active
       /\ \A c \in DueComms(Store, active_scenarios'[1].elapsed_seconds) :
            communications_queue'[c].is_sent]_vars

\* C14: a tick whose timing update fails ends with an error its caller sees,
\* and has run neither the parameter simulation nor the trigger checks.
C14_TimingFailureVisible ==
  [][(lastCall'.op = "tickInterval" /\ lastCall'.outcome = "timingFailed") =>
       /\ lastCall'.thrown
       /\ patched' = patched]_vars

(***************************************************************************)
(* Decision impact failure properties.                                     *)
(***************************************************************************)
\* C15: with the decision, its option and the parameter row stored,
\* processDecisionImpact fails only when the generator's answer does not
\* parse, and such a call leaves the DecisionImpact log and the
\* ScenarioState log exactly as they were.
C15_ParseFailureWritesNothing ==
  [][(/\ lastCall'.op = "processDecisionImpact"
      /\ lastCall'.outcome = "error"
      /\ Len(aircraft_positions) = 1)
     => /\ decision_impacts' = decision_impacts
        /\ scenario_states' = scenario_states]_vars

\* a call failed on an unparsable answer after an earlier call had stored an
\* impact and a snapshot
C15_Witness ==
  /\ lastCall = [op |-> "processDecisionImpact", outcome |-> "error"]
  /\ Len(aircraft_positions) = 1
  /\ Len(decision_impacts) = 1
  /\ Len(scenario_states) = 1

C17_DeactivatedTicksAreNoops ==
  [][/\ lastCall'.op = "deactivateScenario" => active_scenarios' = << >>
     /\ (active_scenarios = << >> /\ active_scenarios' # << >>)
          => lastCall'.op = "activateScenario"
     /\ (active_scenarios = << >> /\ lastCall'.op = "processScenarioTick")
          => (lastCall'.outcome = "noop" /\ UNCHANGED storeVars)]_vars

\* a tick was a no-op on a scenario that had been activated, had a decision
\* node stored and was then deactivated
C17_Witness ==
  /\ TickWasNoop
  /\ active_scenarios = << >>
  /\ aircraft_positions # << >>
  /\ decision_nodes # << >>

(***************************************************************************)
(* Round trip through the scenarios routes.                                *)
(***************************************************************************)
\* the sequence s holds the same values as t, in some order
SameValues(s, t) ==
  /\ Len(s) = Len(t)
  /\ \E p \in Orders(DOMAIN t) : \A i \in DOMAIN s : s[i] = t[p[i]]

\* C18: a scenario that was created and loaded back by its id has the
\* supplied title, as many waypoints as supplied in ascending sequence order
\* with the supplied sequence numbers, as many decisions each with its
\* options and the supplied decision and option texts, and as many
\* communications, whatever the supplied values (0, false and "" included).
C18_RoundTripPreservesValues ==
  (reply # << >> /\ reply.op = "GET" /\ reply.status = 200) =>
    LET loaded == reply.scenario IN
    /\ loaded.title = request.title
    /\ SameValues(loaded.waypoints, request.waypoints)
    /\ \A i, j \in DOMAIN loaded.waypoints :
         i < j => loaded.waypoints[i].sequence <= loaded.waypoints[j].sequence
    /\ Len(loaded.decisions) = Len(request.decisions)
    /\ \E p \in Orders(DOMAIN request.decisions) :
         \A i \in DOMAIN loaded.decisions :
           /\ loaded.decisions[i].title = request.decisions[p[i]].title
           /\ SameValues(loaded.decisions[i].options, request.decisions[p[i]].options)
    /\ Len(loaded.communications) = Len(request.communications)

(***************************************************************************)
(* Evaluation.                                                             *)
(***************************************************************************)
\* evaluateScenario built its prompt from 4 responses, 3 of them recommended
ThreeOfFourEvaluated ==
  /\ reply # << >>
  /\ reply.op = "evaluateScenario"
  /\ reply.prompted
  /\ Len(request.decisionsData) = 4
  /\ RecommendedChoices(request.decisionsData) = 3

\* C19 (as stated): with 4 responses of which 3 are recommended the ratio is
\* 0.75 and the value the prompt carries equals that ratio.
C19_RatioVerbatimInPrompt ==
  ThreeOfFourEvaluated =>
    /\ 4 * reply.recommendedRatio.num = 3 * reply.recommendedRatio.den
    /\ reply.prompt.percent * reply.recommendedRatio.den = reply.recommendedRatio.num

\* C19: the ratio is recommendedChoices / totalChoices (0.75 for 3 of 4); the
\* prompt carries the two counts unchanged and the ratio as a whole
\* percentage, the nearest to 100 times the ratio (75 for 3 of 4).
C19_RatioAsRoundedPercent ==
  (reply # << >> /\ reply.op = "evaluateScenario" /\ reply.prompted) =>
    LET ratio == reply.recommendedRatio
        total == Len(request.decisionsData)
    IN /\ reply.prompt.totalChoices = total
       /\ reply.prompt.recommendedChoices = RecommendedChoices(request.decisionsData)
       /\ total > 0 => ratio.num * total = reply.prompt.recommendedChoices * ratio.den
       /\ total = 0 => ratio.num = 0
       /\ 2 * ratio.den * reply.prompt.percent - ratio.den <= 200 * ratio.num
       /\ 200 * ratio.num < 2 * ratio.den * reply.prompt.percent + ratio.den
       /\ ThreeOfFourEvaluated =>
            (4 * ratio.num = 3 * ratio.den /\ reply.prompt.percent = 75)

C19_Witness ==
  /\ ThreeOfFourEvaluated
  /\ reply.outcome = "ok"
  /\ reply.prompt = [recommendedChoices |-> 3, totalChoices |-> 4, percent |-> 75]
  /\ Len(scenario_evaluations) = 1

\* C20: whatever calls of processDecisionImpact were made, and however each
\* ended, as many DecisionImpact rows are stored as ScenarioState snapshots.
C20_ImpactsMatchSnapshots ==
  Len(decision_impacts) = Len(scenario_states)

(***************************************************************************)
(* Overlapping calls.                                                      *)
(***************************************************************************)
\* C21: every snapshot after the first is the snapshot before it in the log
\* folded with one impact: scores added and clamped to 0..100, time_impact
\* added to time_deviation, fuel_impact subtracted from fuel_remaining; also
\* when two updateScenarioState calls overlap.
C21_SnapshotFoldsPredecessor ==
  \A i \in 2..Len(scenario_states) :
    \E impact \in Impacts :
      LET prior == scenario_states[i - 1]
          next == scenario_states[i]
      IN /\ next.current_safety_score =
              Max(0, Min(100, prior.current_safety_score + impact.safety_impact))
         /\ next.current_efficiency_score =
              Max(0, Min(100, prior.current_efficiency_score + impact.efficiency_impact))
         /\ next.current_passenger_comfort_score =
              Max(0, Min(100, prior.current_passenger_comfort_score
                                + impact.passenger_comfort_impact))
         /\ next.time_deviation = prior.time_deviation + impact.time_impact
         /\ next.fuel_remaining = prior.fuel_remaining - impact.fuel_impact

\* C22: a tick whose decision-node trigger step fails still runs the
\* communication trigger step: every queue item that was unsent and due at
\* the new elapsed_seconds is sent afterwards.
C22_TriggerFailureStillSends ==
  [][(lastCall'.op = "processScenarioTick" /\ lastCall'.outcome = "timeTriggersFailed") =>
       \A c \in DueComms(Store, active_scenarios'[1].elapsed_seconds) :
         /\ communications_queue'[c].is_sent
         /\ \E i \in DOMAIN communications' : communications'[i] = c]_vars

\* C23: when ticks overlap, applying a due trigger a second time changes
\* nothing: a round of checkCommunicationsTriggers on a queue item that is
\* already sent appends nothing to the history, and a round of
\* checkTimeTriggers on a node that is already active sends no communication
\* and changes no parameter.
C23_SecondApplicationIsNoop ==
  [][/\ (/\ lastCall'.op = "checkCommunicationsTriggers"
         /\ lastCall'.outcome = "applied"
         /\ communications_queue[lastCall'.id].is_sent)
        => communications' = communications
     /\ (/\ lastCall'.op = "checkTimeTriggers"
         /\ lastCall'.outcome = "applied"
         /\ decision_nodes[lastCall'.id].is_active)
        => (communications' = communications
            /\ aircraft_positions' = aircraft_positions)]_vars

\* C26: once paused, the scenario stays paused until resumeScenario writes
\* the timing row: no step of a tick turns is_paused from true to false.
C26_OnlyResumeUnpauses ==
  [][(/\ active_scenarios # << >>
      /\ active_scenarios' # << >>
      /\ active_scenarios[1].is_paused
      /\ ~active_scenarios'[1].is_paused)
     => lastCall'.op = "resumeScenario"]_vars

\* C27: the stored elapsed_seconds never decreases, whatever calls overlap.
C27_ElapsedNeverDecreases ==
  [][(active_scenarios # << >> /\ active_scenarios' # << >>)
     => active_scenarios'[1].elapsed_seconds >= active_scenarios[1].elapsed_seconds]_vars

(***************************************************************************)
(* processDecision failure properties.                                     *)
(***************************************************************************)
\* C24: a processDecision call in which a persistence step or the generation
\* step fails ends with an error for its caller, and a response recorded
\* before the failure stays in the log.
C24_FailedStepAbortsDecision ==
  [][(lastCall'.op = "processDecision" /\ lastCall'.fault # "none") =>
       /\ lastCall'.outcome = "error"
       /\ lastCall'.fault # "recordResponse" =>
            decision_responses' = Append(decision_responses,
                                         decision_responses'[Len(decision_responses')])]_vars

\* C25: in the HTTP-backed engine, the resumeScenario that follows a
\* successful pauseScenario succeeds and leaves the scenario running (the
\* timing route answers again) and the page unpaused, so that ticks resume.
C25_ResumeAfterPauseSucceeds ==
  [][(/\ lastCall = [op |-> "handlePauseResume", outcome |-> "ok"]
      /\ page.isPaused
      /\ lastCall'.op = "handlePauseResume")
     => /\ lastCall'.outcome = "ok"
        /\ ~page'.isPaused
        /\ scenario_is_active']_vars

\* C28: a processDecision call records a DecisionResponse only for a Decision
\* that is active when the call starts and that has no response yet, so
\* that each Decision has at most one DecisionResponse.
C28_OneResponsePerActiveDecision ==
  [][(lastCall'.op = "processDecision"
      /\ Len(decision_responses') > Len(decision_responses))
     => LET recorded == decision_responses'[Len(decision_responses')] IN
        /\ Len(decision_responses') = Len(decision_responses) + 1
        /\ decisions[recorded.decision_id].is_active
        /\ \A i \in DOMAIN decision_responses :
             decision_responses[i].decision_id # recorded.decision_id]_vars

\* C29: no two DecisionNodes of the scenario have the same parent node
\* (none included) and the same option: a (parent, option) pair has at most
\* one child.
C29_AtMostOneChildPerOption ==
  \A m, n \in DOMAIN decision_nodes :
    (/\ decision_nodes[m].parent_node_id = decision_nodes[n].parent_node_id
     /\ decision_nodes[m].option_id = decision_nodes[n].option_id) => m = n

====
